---- MODULE Spec2Model ----
(***************************************************************************)
(* SimpleLang: the tree-walking interpreter of src/other/simple_lang and   *)
(* src/other/simple_lang2 (the two variants differ only in how arithmetic  *)
(* nodes are visited).  The parse tree is produced by the ANTLR parser,    *)
(* which is outside the repository's sources; the interpreter consumes it. *)
(*                                                                         *)
(* State: the interpreter's environment (self.env), the values handed to   *)
(* print (standard output), the stack of visitBlock loops that are in      *)
(* progress, and the outcome of the run (running / returned / the          *)
(* exception that left the driver).                                        *)
(***************************************************************************)
EXTENDS Integers, Sequences, FiniteSets, TLC

VARIABLES variant, status, env, out, stack, err, nvisited, nruns

vars == <<variant, status, env, out, stack, err, nvisited, nruns>>

\* ------------------------------------------------------------------ bounds

\* Top-level statements visited in one run.
MaxStmts == 3
\* Runs of the driver in one session.
MaxRuns == 2
\* Ints bound to variables are -MaxInt .. MaxInt.
MaxInt == 2
\* Statements in a block of an if statement.
MaxBlockLen == 2
\* Nesting depth of if statements.
MaxDepth == 2

\* --------------------------------------------------------------- characters

QUOTE == "\""
BSL == "\\"
NL == "\n"
TAB == "\t"

Digits == <<"0", "1", "2", "3", "4", "5", "6", "7", "8", "9">>

\* The value of a decimal digit character.
DigitVal(c) == (CHOOSE i \in 1..10 : Digits[i] = c) - 1

\* int(text) on the text of an INT token: decimal, leading zeros allowed.
RECURSIVE ParseInt(_)
ParseInt(t) ==
    IF t = <<>> THEN 0
    ELSE 10 * ParseInt(SubSeq(t, 1, Len(t) - 1)) + DigitVal(t[Len(t)])

\* bytes(s, "utf-8").decode("unicode_escape") on the characters between the
\* quotes: a backslash and the character after it decode to one character
\* (an unknown escape is kept as written), every other character is kept.
RECURSIVE Unescape(_)
Unescape(s) ==
    IF s = <<>> THEN <<>>
    ELSE IF s[1] = BSL /\ Len(s) >= 2
         THEN (CASE s[2] = "n" -> <<NL>>
                 [] s[2] = "t" -> <<TAB>>
                 [] s[2] = BSL -> <<BSL>>
                 [] s[2] = QUOTE -> <<QUOTE>>
                 [] OTHER -> <<BSL, s[2]>>) \o Unescape(SubSeq(s, 3, Len(s)))
         ELSE <<s[1]>> \o Unescape(Tail(s))

\* ------------------------------------------------------------------ values

\* Python numbers: an int is num/1 with float = FALSE; a float (the result of
\* "/" or of arithmetic on a float) is the reduced fraction num/den.
RECURSIVE GCD(_, _)
GCD(a, b) == IF b = 0 THEN a ELSE GCD(b, a % b)

Abs(n) == IF n < 0 THEN -n ELSE n

PyInt(n) == [num |-> n, den |-> 1, float |-> FALSE, str |-> <<>>]

PyFloat(n, d) ==
    LET s == IF d < 0 THEN -1 ELSE 1
        g == GCD(Abs(n), Abs(d))
    IN  [num |-> (s * n) \div g, den |-> (s * d) \div g, float |-> TRUE, str |-> <<>>]

PyNum(n, d, f) == IF f THEN PyFloat(n, d) ELSE PyInt(n)

PyStr(s) == [num |-> 0, den |-> 1, float |-> FALSE, str |-> s]

\* @dataclass Value / Variable: kind is "number" or "text".
Value(kind, value) == [kind |-> kind, value |-> value]

NoValue == Value("", PyStr(<<>>))

\* ---------------------------------------------------------------- failures

NoErr == [exc |-> "", msg |-> <<>>]

Exc(exc, msg) == [exc |-> exc, msg |-> msg]

\* What a visit of an expression gives: a Value, or the exception it raised.
Ret(v) == [ok |-> TRUE, val |-> v, err |-> NoErr]
Raised(e) == [ok |-> FALSE, val |-> NoValue, err |-> e]

\* --------------------------------------------------------------- parse tree

\* Expression contexts: the rule alternative, the text of its token (INT,
\* STRING with its quotes, ID, or the operator) and its sub-expressions.
IntLit(t) == [node |-> "IntLit", text |-> t, kids |-> <<>>]
StringLit(raw) == [node |-> "StringLit", text |-> raw, kids |-> <<>>]
VarRef(id) == [node |-> "VarRef", text |-> <<id>>, kids |-> <<>>]
Parens(x) == [node |-> "Parens", text |-> <<>>, kids |-> <<x>>]
MulDiv(op, l, r) == [node |-> "MulDiv", text |-> <<op>>, kids |-> <<l, r>>]
AddSub(op, l, r) == [node |-> "AddSub", text |-> <<op>>, kids |-> <<l, r>>]
ArithmOp(op, l, r) == [node |-> "ArithmOp", text |-> <<op>>, kids |-> <<l, r>>]
Condition(l, op, r) == [node |-> "Condition", text |-> <<op>>, kids |-> <<l, r>>]

\* The context the parser builds for "l op r": the first grammar has one
\* alternative for * and / and one for + and -, the second a single one.
BinaryOp(v, op, l, r) ==
    IF v = 2 THEN ArithmOp(op, l, r)
    ELSE IF op \in {"*", "/"} THEN MulDiv(op, l, r)
    ELSE AddSub(op, l, r)

\* Statement contexts.
VarDecl(kw, id, x) ==
    [node |-> "VarDecl", kw |-> kw, id |-> id, expr |-> x, blocks |-> <<>>]
PrintStmt(x) ==
    [node |-> "PrintStmt", kw |-> "", id |-> "", expr |-> x, blocks |-> <<>>]
IfStmt(c, blocks) ==
    [node |-> "IfStmt", kw |-> "", id |-> "", expr |-> c, blocks |-> blocks]

\* -------------------------------------------------------------- arithmetic

\* Python's +, -, * on two numbers: a float when either operand is one.
PyAdd(a, b) ==
    PyNum(a.num * b.den + b.num * a.den, a.den * b.den, a.float \/ b.float)
PySub(a, b) ==
    PyNum(a.num * b.den - b.num * a.den, a.den * b.den, a.float \/ b.float)
PyMul(a, b) == PyNum(a.num * b.num, a.den * b.den, a.float \/ b.float)

\* Python's // in place of / : the quotient rounded down to a whole number.
PyFloorDiv(a, b) ==
    IF b.num = 0 THEN Raised(Exc("ZeroDivisionError", <<"division by zero">>))
    ELSE LET s == IF a.den * b.num < 0 THEN -1 ELSE 1
             n == s * a.num * b.den
             d == s * a.den * b.num
         IN  Ret(Value("number", PyNum(n \div d, 1, a.float \/ b.float)))

\* The division with a guard: a zero divisor gives the number 0.
PyDivGuarded(a, b) ==
    IF b.num = 0 THEN Ret(Value("number", PyInt(0)))
    ELSE Ret(Value("number", PyFloat(a.num * b.den, a.den * b.num)))

\* Python's / : true division, always a float; ZeroDivisionError on zero.
PyDiv(a, b) ==
    IF b.num = 0
    THEN Raised(Exc("ZeroDivisionError",
            IF a.float \/ b.float THEN <<"float division by zero">>
            ELSE <<"division by zero">>))
    ELSE Ret(Value("number", PyFloat(a.num * b.den, a.den * b.num)))

\* Python's comparisons of two numbers.
PyEq(a, b) == a.num * b.den = b.num * a.den
PyLt(a, b) == a.num * b.den < b.num * a.den

\* ---------------------------------------------------- expression evaluator

RECURSIVE visit(_, _)

visitIntLit(ctx) == Ret(Value("number", PyInt(ParseInt(ctx.text))))

visitStringLit(ctx) ==
    LET raw == ctx.text
    IN  Ret(Value("text", PyStr(Unescape(SubSeq(raw, 2, Len(raw) - 1)))))

\* The lookup with a default: an undeclared name reads as the number 0.
visitVarRefDefault(ctx, e) ==
    LET name == ctx.text[1]
    IN  IF name \notin DOMAIN e THEN Ret(Value("number", PyInt(0)))
        ELSE Ret(e[name])

visitVarRef(ctx, e) ==
    LET name == ctx.text[1]
    IN  IF name \notin DOMAIN e
        THEN Raised(Exc("NameError", <<"Undefined variable '", name, "'">>))
        ELSE Ret(e[name])

visitParens(ctx, e) == visit(ctx.kids[1], e)

visitMulDiv(ctx, e) ==
    LET left == visit(ctx.kids[1], e)
    IN  IF ~left.ok THEN left
        ELSE LET right == visit(ctx.kids[2], e)
             IN  IF ~right.ok THEN right
                 ELSE IF left.val.kind # "number" \/ right.val.kind # "number"
                 THEN Raised(Exc("TypeError", <<"'*' and '/' only work on numbers">>))
                 ELSE LET op == ctx.text[1]
                      IN  IF op = "*"
                          THEN Ret(Value("number", PyMul(left.val.value, right.val.value)))
                          ELSE IF op = "/"
                          THEN PyDiv(left.val.value, right.val.value)
                          ELSE Raised(Exc("RuntimeError", <<"Unexpected operator">>))

\* + and - applied without a look at the kinds of the operands.
visitAddSubUnchecked(ctx, e) ==
    LET left == visit(ctx.kids[1], e)
    IN  IF ~left.ok THEN left
        ELSE LET right == visit(ctx.kids[2], e)
                 op == ctx.text[1]
             IN  IF ~right.ok THEN right
                 ELSE IF op = "+"
                 THEN Ret(Value(left.val.kind, PyAdd(left.val.value, right.val.value)))
                 ELSE Ret(Value(left.val.kind, PySub(left.val.value, right.val.value)))

visitAddSub(ctx, e) ==
    LET left == visit(ctx.kids[1], e)
    IN  IF ~left.ok THEN left
        ELSE LET right == visit(ctx.kids[2], e)
                 op == ctx.text[1]
             IN  IF ~right.ok THEN right
                 ELSE IF left.val.kind # "number" \/ right.val.kind # "number"
                 THEN Raised(Exc("TypeError",
                        <<"'+' and '-' only work on numbers (no string concat in this example)">>))
                 ELSE IF op = "+"
                 THEN Ret(Value("number", PyAdd(left.val.value, right.val.value)))
                 ELSE IF op = "-"
                 THEN Ret(Value("number", PySub(left.val.value, right.val.value)))
                 ELSE Raised(Exc("RuntimeError", <<"Unexpected operator">>))

\* The unified visitor checking the kind of each operand as soon as it has it.
visitArithmOpEarlyCheck(ctx, e) ==
    LET left == visit(ctx.kids[1], e)
    IN  IF ~left.ok THEN left
        ELSE IF left.val.kind # "number"
        THEN Raised(Exc("TypeError", <<"'*' and '/' only work on numbers">>))
        ELSE LET right == visit(ctx.kids[2], e)
             IN  IF ~right.ok THEN right
                 ELSE IF right.val.kind # "number"
                 THEN Raised(Exc("TypeError", <<"'*' and '/' only work on numbers">>))
                 ELSE LET op == ctx.text[1]
                      IN  IF op = "+"
                          THEN Ret(Value("number", PyAdd(left.val.value, right.val.value)))
                          ELSE IF op = "-"
                          THEN Ret(Value("number", PySub(left.val.value, right.val.value)))
                          ELSE IF op = "*"
                          THEN Ret(Value("number", PyMul(left.val.value, right.val.value)))
                          ELSE IF op = "/"
                          THEN PyDiv(left.val.value, right.val.value)
                          ELSE Raised(Exc("RuntimeError", <<"Unexpected operator ", op>>))

\* The unified visitor with the branch of - copied from + and left as it was.
visitArithmOpSlip(ctx, e) ==
    LET left == visit(ctx.kids[1], e)
    IN  IF ~left.ok THEN left
        ELSE LET right == visit(ctx.kids[2], e)
             IN  IF ~right.ok THEN right
                 ELSE IF left.val.kind # "number" \/ right.val.kind # "number"
                 THEN Raised(Exc("TypeError", <<"'*' and '/' only work on numbers">>))
                 ELSE LET op == ctx.text[1]
                      IN  IF op = "+"
                          THEN Ret(Value("number", PyAdd(left.val.value, right.val.value)))
                          ELSE IF op = "-"
                          THEN Ret(Value("number", PyAdd(left.val.value, right.val.value)))
                          ELSE IF op = "*"
                          THEN Ret(Value("number", PyMul(left.val.value, right.val.value)))
                          ELSE IF op = "/"
                          THEN PyDiv(left.val.value, right.val.value)
                          ELSE Raised(Exc("RuntimeError", <<"Unexpected operator ", op>>))

visitArithmOp(ctx, e) ==
    LET left == visit(ctx.kids[1], e)
    IN  IF ~left.ok THEN left
        ELSE LET right == visit(ctx.kids[2], e)
             IN  IF ~right.ok THEN right
                 ELSE IF left.val.kind # "number" \/ right.val.kind # "number"
                 THEN Raised(Exc("TypeError", <<"'*' and '/' only work on numbers">>))
                 ELSE LET op == ctx.text[1]
                      IN  IF op = "+"
                          THEN Ret(Value("number", PyAdd(left.val.value, right.val.value)))
                          ELSE IF op = "-"
                          THEN Ret(Value("number", PySub(left.val.value, right.val.value)))
                          ELSE IF op = "*"
                          THEN Ret(Value("number", PyMul(left.val.value, right.val.value)))
                          ELSE IF op = "/"
                          THEN PyDiv(left.val.value, right.val.value)
                          ELSE Raised(Exc("RuntimeError", <<"Unexpected operator ", op>>))

\* The visitor's dispatch on the class of an expression context.
visit(ctx, e) ==
    CASE ctx.node = "IntLit" -> visitIntLit(ctx)
      [] ctx.node = "StringLit" -> visitStringLit(ctx)
      [] ctx.node = "VarRef" -> visitVarRef(ctx, e)
      [] ctx.node = "Parens" -> visitParens(ctx, e)
      [] ctx.node = "MulDiv" -> visitMulDiv(ctx, e)
      [] ctx.node = "AddSub" -> visitAddSub(ctx, e)
      [] ctx.node = "ArithmOp" -> visitArithmOp(ctx, e)

\* What visitCondition gives: a bool, or the exception it raised.
Truth(b) == [ok |-> TRUE, truth |-> b, err |-> NoErr]
CondRaised(x) == [ok |-> FALSE, truth |-> FALSE, err |-> x]

\* The chain with <= answered as <.
compareStrict(op, a, b) ==
    IF op = "==" THEN Truth(PyEq(a, b))
    ELSE IF op = "!=" THEN Truth(~PyEq(a, b))
    ELSE IF op = "<" THEN Truth(PyLt(a, b))
    ELSE IF op = "<=" THEN Truth(PyLt(a, b))
    ELSE IF op = ">" THEN Truth(PyLt(b, a))
    ELSE IF op = ">=" THEN Truth(PyLt(b, a) \/ PyEq(a, b))
    ELSE CondRaised(Exc("RuntimeError", <<"Unknown comparison operator: ", op>>))

\* The chain ending in "return False" where the code raises.
compareLenient(op, a, b) ==
    IF op = "==" THEN Truth(PyEq(a, b))
    ELSE IF op = "!=" THEN Truth(~PyEq(a, b))
    ELSE IF op = "<" THEN Truth(PyLt(a, b))
    ELSE IF op = "<=" THEN Truth(PyLt(a, b) \/ PyEq(a, b))
    ELSE IF op = ">" THEN Truth(PyLt(b, a))
    ELSE IF op = ">=" THEN Truth(PyLt(b, a) \/ PyEq(a, b))
    ELSE Truth(FALSE)

\* The comparison chain of visitCondition on the payloads a and b.
compare(op, a, b) ==
    IF op = "==" THEN Truth(PyEq(a, b))
    ELSE IF op = "!=" THEN Truth(~PyEq(a, b))
    ELSE IF op = "<" THEN Truth(PyLt(a, b))
    ELSE IF op = "<=" THEN Truth(PyLt(a, b) \/ PyEq(a, b))
    ELSE IF op = ">" THEN Truth(PyLt(b, a))
    ELSE IF op = ">=" THEN Truth(PyLt(b, a) \/ PyEq(a, b))
    ELSE CondRaised(Exc("RuntimeError", <<"Unknown comparison operator: ", op>>))

\* The comparison applied whatever the kinds of the operands: texts compare
\* as Python compares them, equal or not, and never fail on == and !=.
visitConditionUnchecked(ctx, e) ==
    LET left == visit(ctx.kids[1], e)
    IN  IF ~left.ok THEN CondRaised(left.err)
        ELSE LET right == visit(ctx.kids[2], e)
             IN  IF ~right.ok THEN CondRaised(right.err)
                 ELSE IF ctx.text[1] = "=="
                 THEN Truth(left.val = right.val)
                 ELSE IF ctx.text[1] = "!="
                 THEN Truth(left.val # right.val)
                 ELSE IF left.val.kind # "number" \/ right.val.kind # "number"
                 THEN CondRaised(Exc("TypeError",
                        <<"if condition comparisons require numbers">>))
                 ELSE compare(ctx.text[1], left.val.value, right.val.value)

\* The condition with its right operand evaluated before its left one.
visitConditionRightFirst(ctx, e) ==
    LET right == visit(ctx.kids[2], e)
    IN  IF ~right.ok THEN CondRaised(right.err)
        ELSE LET left == visit(ctx.kids[1], e)
             IN  IF ~left.ok THEN CondRaised(left.err)
                 ELSE IF left.val.kind # "number" \/ right.val.kind # "number"
                 THEN CondRaised(Exc("TypeError",
                        <<"if condition comparisons require numbers">>))
                 ELSE compare(ctx.text[1], left.val.value, right.val.value)

visitCondition(ctx, e) ==
    LET left == visit(ctx.kids[1], e)
    IN  IF ~left.ok THEN CondRaised(left.err)
        ELSE LET right == visit(ctx.kids[2], e)
             IN  IF ~right.ok THEN CondRaised(right.err)
                 ELSE IF left.val.kind # "number" \/ right.val.kind # "number"
                 THEN CondRaised(Exc("TypeError",
                        <<"if condition comparisons require numbers">>))
                 ELSE compare(ctx.text[1], left.val.value, right.val.value)

\* ------------------------------------------------------ statement executor

EmptyEnv == [n \in {} |-> NoValue]

\* self.env = {name: value}: the assignment that drops every other binding.
DeclareOnly(e, name, v) == [n \in {name} |-> v]

\* self.env[name] = value
Declare(e, name, v) ==
    [n \in DOMAIN e \cup {name} |-> IF n = name THEN v ELSE e[n]]

\* What a visit of a statement gives: the environment and the printed values
\* it leaves, the block it enters (as a sequence of at most one block), or
\* the exception it raised.
Done(e, o, enter) == [ok |-> TRUE, env |-> e, out |-> o, enter |-> enter, err |-> NoErr]
Failed(e, o, x) == [ok |-> FALSE, env |-> e, out |-> o, enter |-> <<>>, err |-> x]

\* The declaration with the check of the keyword left out.
visitVarDeclUnchecked(ctx, e, o) ==
    LET expr_val == visit(ctx.expr, e)
    IN  IF ~expr_val.ok THEN Failed(e, o, expr_val.err)
        ELSE Done(Declare(e, ctx.id, expr_val.val), o, <<>>)

\* The declaration with a type that stays with the variable: a name bound to
\* one kind cannot be declared again with the other.
visitVarDeclTyped(ctx, e, o) ==
    LET name == ctx.id
        expr_val == visit(ctx.expr, e)
    IN  IF ~expr_val.ok THEN Failed(e, o, expr_val.err)
        ELSE IF expr_val.val.kind # ctx.kw
             \/ (name \in DOMAIN e /\ e[name].kind # expr_val.val.kind)
        THEN Failed(e, o, Exc("TypeError",
                <<"Variable '", name, "' declared as ", ctx.kw, " but assigned ",
                  expr_val.val.kind>>))
        ELSE Done(Declare(e, name, expr_val.val), o, <<>>)

\* The declaration raising its TypeError with the words of the condition's.
visitVarDeclVague(ctx, e, o) ==
    LET expr_val == visit(ctx.expr, e)
    IN  IF ~expr_val.ok THEN Failed(e, o, expr_val.err)
        ELSE IF expr_val.val.kind # ctx.kw
        THEN Failed(e, o, Exc("TypeError", <<"if condition comparisons require numbers">>))
        ELSE Done(Declare(e, ctx.id, expr_val.val), o, <<>>)

\* The declaration that makes the value fit: a value of the other kind is
\* stored under the kind of the keyword.
visitVarDeclCoercing(ctx, e, o) ==
    LET expr_val == visit(ctx.expr, e)
    IN  IF ~expr_val.ok THEN Failed(e, o, expr_val.err)
        ELSE Done(Declare(e, ctx.id, Value(ctx.kw, expr_val.val.value)), o, <<>>)

\* The declaration that binds first and checks the keyword afterwards.
visitVarDeclEager(ctx, e, o) ==
    LET name == ctx.id
        expr_val == visit(ctx.expr, e)
    IN  IF ~expr_val.ok THEN Failed(e, o, expr_val.err)
        ELSE IF expr_val.val.kind # ctx.kw
        THEN Failed(Declare(e, name, expr_val.val), o,
                    Exc("TypeError",
                        <<"Variable '", name,
                          IF ctx.kw = "number" THEN "' declared as number but assigned "
                          ELSE "' declared as text but assigned ",
                          expr_val.val.kind>>))
        ELSE Done(Declare(e, name, expr_val.val), o, <<>>)

visitVarDecl(ctx, e, o) ==
    LET name == ctx.id
        expr_val == visit(ctx.expr, e)
    IN  IF ~expr_val.ok THEN Failed(e, o, expr_val.err)
        ELSE IF ctx.kw = "number"
        THEN IF expr_val.val.kind # "number"
             THEN Failed(e, o, Exc("TypeError",
                    <<"Variable '", name, "' declared as number but assigned ",
                      expr_val.val.kind>>))
             ELSE Done(Declare(e, name, expr_val.val), o, <<>>)
        ELSE IF expr_val.val.kind # "text"
             THEN Failed(e, o, Exc("TypeError",
                    <<"Variable '", name, "' declared as text but assigned ",
                      expr_val.val.kind>>))
             ELSE Done(Declare(e, name, expr_val.val), o, <<>>)

\* The print statement printing the Value itself (its kind, then its payload).
visitPrintStmtVerbose(ctx, e, o) ==
    LET v == visit(ctx.expr, e)
    IN  IF ~v.ok THEN Failed(e, o, v.err)
        ELSE Done(e, o \o <<PyStr(<<v.val.kind>>), v.val.value>>, <<>>)

\* print(v.value): the payload handed to print is appended to the output.
visitPrintStmt(ctx, e, o) ==
    LET v == visit(ctx.expr, e)
    IN  IF ~v.ok THEN Failed(e, o, v.err)
        ELSE Done(e, Append(o, v.val.value), <<>>)

\* The if statement with its branches the wrong way round.
visitIfStmtSwapped(ctx, e, o) ==
    LET cond == visitCondition(ctx.expr, e)
    IN  IF ~cond.ok THEN Failed(e, o, cond.err)
        ELSE IF ~cond.truth THEN Done(e, o, <<ctx.blocks[1]>>)
        ELSE IF Len(ctx.blocks) = 2 THEN Done(e, o, <<ctx.blocks[2]>>)
        ELSE Done(e, o, <<>>)

\* ctx.ELSE() is not None exactly when the statement has a second block.
visitIfStmt(ctx, e, o) ==
    LET cond == visitCondition(ctx.expr, e)
    IN  IF ~cond.ok THEN Failed(e, o, cond.err)
        ELSE IF cond.truth THEN Done(e, o, <<ctx.blocks[1]>>)
        ELSE IF Len(ctx.blocks) = 2 THEN Done(e, o, <<ctx.blocks[2]>>)
        ELSE Done(e, o, <<>>)

\* The visitor's dispatch on the class of a statement context.
visitStatement(ctx, e, o) ==
    CASE ctx.node = "VarDecl" -> visitVarDecl(ctx, e, o)
      [] ctx.node = "PrintStmt" -> visitPrintStmt(ctx, e, o)
      [] ctx.node = "IfStmt" -> visitIfStmt(ctx, e, o)

\* ----------------------------------------------------------------- programs

Names == {"x", "y"}
ArithOps == {"+", "-", "*", "/"}
CompOps == {"==", "!=", "<", "<=", ">", ">="}
Keywords == {"number", "text"}

\* The texts of the tokens: INT, and STRING with its quotes.
IntTexts == {<<"1">>, <<"2">>, <<"3">>}
Less == <<QUOTE, "l", "e", "s", "s", QUOTE>>
NotLess == <<QUOTE, "n", "o", "t", " ", "l", "e", "s", "s", QUOTE>>
StrTexts == {Less}

IntLits == {IntLit(t) : t \in IntTexts}
StrLits == {StringLit(t) : t \in StrTexts}
VarRefs == {VarRef(n) : n \in Names}
Atoms == IntLits \cup StrLits \cup VarRefs

\* The expressions of the programs run: every atom, and arithmetic whose
\* operands are a number, a text, a declared or an undeclared variable.
Ariths(v) ==
    {BinaryOp(v, op, l, r) :
        op \in {"+", "/"},
        l \in {VarRef("x")},
        r \in {IntLit(<<"0">>), StringLit(Less), VarRef("y")}}

Exprs(v) == Atoms \cup Ariths(v)

SimpleStmts(v) ==
    {VarDecl(kw, id, x) : kw \in Keywords, id \in Names, x \in Exprs(v)}
    \cup {PrintStmt(x) : x \in Exprs(v)}

Conds ==
    {Condition(l, op, r) :
        l \in {VarRef("x"), IntLit(<<"1">>)},
        op \in {"<", "=="},
        r \in {IntLit(<<"1">>), IntLit(<<"2">>), StringLit(Less), VarRef("y")}}

TrueCond == Condition(IntLit(<<"1">>), "<", IntLit(<<"2">>))
FalseCond == Condition(IntLit(<<"2">>), "<", IntLit(<<"1">>))

\* The statements of the blocks: a declaration of x of either kind and a
\* print of x (which fails while x is undeclared).
InnerStmts ==
    {VarDecl("number", "x", IntLit(<<"1">>)),
     VarDecl("text", "x", StringLit(Less)),
     PrintStmt(VarRef("x"))}

SeqsUpTo(S, n) == UNION {[1..k -> S] : k \in 0..n}

PrintLess == <<PrintStmt(StringLit(Less))>>
PrintNotLess == <<PrintStmt(StringLit(NotLess))>>

\* if (c) { print "less" } [else { print "not less" }] for every condition.
BranchIfs == {IfStmt(c, bs) : c \in Conds, bs \in {<<PrintLess>>, <<PrintLess, PrintNotLess>>}}

\* if (c) { block } [else { block }] with blocks of up to MaxBlockLen statements.
BlockIfs ==
    {IfStmt(c, <<t>>) : c \in {TrueCond, FalseCond}, t \in SeqsUpTo(InnerStmts, MaxBlockLen)}
    \cup {IfStmt(c, <<t, e>>) :
            c \in {TrueCond, FalseCond},
            t \in SeqsUpTo(InnerStmts, 1),
            e \in SeqsUpTo(InnerStmts, 1)}

\* if statements nested d deep: the block taken (the then-block of a true
\* condition, the else-block of a false one) is a declaration, a print and a
\* failing declaration, or an if statement nested one less with a print
\* after it.
RECURSIVE NestedIfs(_)
NestedIfs(d) ==
    IF d = 0 THEN {}
    ELSE LET inner ==
                {<<VarDecl("number", "x", IntLit(<<"1">>))>>,
                 <<PrintStmt(StringLit(Less)), VarDecl("number", "y", StringLit(Less))>>}
                \cup {<<i, PrintStmt(VarRef("x"))>> : i \in NestedIfs(d - 1)}
         IN  {IfStmt(TrueCond, <<t>>) : t \in inner}
             \cup {IfStmt(FalseCond, <<PrintLess, t>>) : t \in inner}

IfStmts == BranchIfs \cup BlockIfs \cup NestedIfs(MaxDepth)

Stmts(v) == SimpleStmts(v) \cup IfStmts

\* ------------------------------------------- single statements, any operands

\* The environments a run can have built: each name undeclared, or bound to
\* an int of -MaxInt .. MaxInt, to a float, or to a text.
EvalValues ==
    {Value("number", PyInt(n)) : n \in -MaxInt..MaxInt}
    \cup {Value("number", PyFloat(1, 2)), Value("text", PyStr(<<"l", "e", "s", "s">>))}

EvalEnvs == UNION {[D -> EvalValues] : D \in SUBSET Names}

\* What the earlier part of the program has printed.
EvalOuts == {<<>>, <<PyInt(1)>>}

Escaped == <<QUOTE, "a", BSL, "n", BSL, QUOTE, QUOTE>>

EvalOperands ==
    {IntLit(<<"0">>), IntLit(<<"2">>), StringLit(Less), VarRef("x"), VarRef("y")}

EvalAriths(v) ==
    {BinaryOp(v, op, l, r) : op \in ArithOps, l \in EvalOperands, r \in EvalOperands}

EvalNested(v) ==
    {BinaryOp(v, op, Parens(l), VarRef("y")) :
        op \in {"*", "-"},
        l \in {BinaryOp(v, "/", VarRef("x"), VarRef("y")),
               BinaryOp(v, "+", VarRef("x"), StringLit(Less))}}

EvalExprs(v) ==
    EvalOperands
    \cup {IntLit(<<"1", "0">>), StringLit(Escaped), Parens(VarRef("x"))}
    \cup EvalAriths(v) \cup EvalNested(v)

EvalConds(v) ==
    {Condition(l, op, r) : op \in CompOps, l \in EvalOperands, r \in EvalOperands}
    \cup {Condition(l, op, VarRef("y")) :
            op \in CompOps, l \in {BinaryOp(v, "/", VarRef("x"), IntLit(<<"2">>))}}

EvalIfStmts(v) ==
    {IfStmt(c, bs) : c \in EvalConds(v), bs \in {<<PrintLess>>, <<PrintLess, PrintNotLess>>}}

\* Operands that fail when evaluated: a name no program declares, and a
\* division by zero.
Undeclared == VarRef("z")
DivByZero(v) == BinaryOp(v, "/", IntLit(<<"2">>), IntLit(<<"0">>))

\* Nodes whose left operand fails, with a right operand that fails in another
\* way, fails in the same way whenever y is undeclared, or does not fail.
EvalOrderExprs(v) ==
    {BinaryOp(v, op, Undeclared, r) :
        op \in {"+", "*"}, r \in {VarRef("y"), Parens(DivByZero(v)), StringLit(Less)}}
    \cup {BinaryOp(v, op, Parens(DivByZero(v)), VarRef("y")) : op \in {"-", "/"}}

EvalOrderConds(v) ==
    {Condition(Undeclared, op, r) :
        op \in {"<", "=="}, r \in {VarRef("y"), Parens(DivByZero(v)), StringLit(Less)}}
    \cup {Condition(Parens(DivByZero(v)), "<", VarRef("y"))}

\* Nodes whose left operand is a text and whose right operand fails: a name
\* no program declares (read nowhere else), and a division by zero.
UndeclaredRight == VarRef("w")

EvalTextLeftExprs(v) ==
    {BinaryOp(v, op, StringLit(Less), r) :
        op \in ArithOps, r \in {UndeclaredRight, Parens(DivByZero(v))}}

EvalTextLeftConds(v) ==
    {Condition(StringLit(Less), op, r) :
        op \in {"<", "=="}, r \in {UndeclaredRight, Parens(DivByZero(v))}}

EvalStmts(v) ==
    {VarDecl(kw, "x", x) : kw \in Keywords, x \in EvalExprs(v)}
    \cup {PrintStmt(x) : x \in EvalExprs(v) \cup EvalOrderExprs(v) \cup EvalTextLeftExprs(v)}
    \cup EvalIfStmts(v)
    \cup {IfStmt(c, <<PrintLess>>) : c \in EvalOrderConds(v) \cup EvalTextLeftConds(v)}

\* ------------------------------------------------------------------ actions

Variants == {1, 2}

\* run(source) has built its Interpreter: an empty env, nothing visited.
Init ==
    /\ variant \in Variants
    /\ status = "running"
    /\ env = EmptyEnv
    /\ out = <<>>
    /\ stack = <<>>
    /\ err = NoErr
    /\ nvisited = 0
    /\ nruns = 1

\* The driver called again with the interpreter of the call before it.
RunSameInterpreter ==
    /\ status \in {"done", "failed"}
    /\ nruns < MaxRuns
    /\ nruns' = nruns + 1
    /\ status' = "running"
    /\ stack' = <<>>
    /\ err' = NoErr
    /\ nvisited' = 0
    /\ UNCHANGED <<variant, env, out>>

\* run(source) once more, after the run before it returned or raised: a new
\* Interpreter (an empty env) visits the next parsed program from its first
\* statement; standard output is the process's and keeps what it holds.
Run ==
    /\ status \in {"done", "failed"}
    /\ nruns < MaxRuns
    /\ nruns' = nruns + 1
    /\ status' = "running"
    /\ env' = EmptyEnv
    /\ stack' = <<>>
    /\ err' = NoErr
    /\ nvisited' = 0
    /\ UNCHANGED <<variant, out>>

InBlock == stack # <<>>
Top == stack[Len(stack)]

\* The statements the loop in progress can hand to self.visit next: the next
\* statement of the innermost block, or, in visitProgram, any statement of S
\* while fewer than budget top-level statements have been visited.
Upcoming(S, budget) ==
    IF ~InBlock
    THEN IF nvisited < budget THEN S ELSE {}
    ELSE IF Top.pc <= Len(Top.stmts) THEN {Top.stmts[Top.pc]} ELSE {}

\* The loop that does not move on: it hands out the same statement again.
AdvancedStuck == stack

\* The loop in progress moves to its next statement.
Advanced ==
    IF ~InBlock THEN stack
    ELSE [stack EXCEPT ![Len(stack)].pc = @ + 1]

\* visitBlock(block) starts its loop.
Frame(block) == [stmts |-> block, pc |-> 1]

\* A loop that catches the exception of a statement and goes on to the next.
VisitRecovering(st) ==
    LET r == visitStatement(st, env, out)
    IN  /\ nvisited' = IF InBlock THEN nvisited ELSE nvisited + 1
        /\ env' = r.env
        /\ out' = r.out
        /\ stack' = Advanced \o [i \in 1..Len(r.enter) |-> Frame(r.enter[i])]
        /\ UNCHANGED <<variant, status, err, nruns>>

\* self.visit(st) for the statement st: its effect, or its exception leaving
\* every loop in progress and the driver.
Visit(st) ==
    LET r == visitStatement(st, env, out)
    IN  /\ nvisited' = IF InBlock THEN nvisited ELSE nvisited + 1
        /\ env' = r.env
        /\ out' = r.out
        /\ IF r.ok
           THEN /\ stack' = Advanced \o [i \in 1..Len(r.enter) |-> Frame(r.enter[i])]
                /\ UNCHANGED <<status, err>>
           ELSE /\ stack' = <<>>
                /\ status' = "failed"
                /\ err' = r.err
        /\ UNCHANGED <<variant, nruns>>

VisitKind(S, budget, kind) ==
    /\ status = "running"
    /\ \E st \in Upcoming(S, budget) : st.node = kind /\ Visit(st)

VisitVarDecl == VisitKind(Stmts(variant), MaxStmts, "VarDecl")
VisitPrintStmt == VisitKind(Stmts(variant), MaxStmts, "PrintStmt")
VisitIfStmt == VisitKind(Stmts(variant), MaxStmts, "IfStmt")

\* A block with a scope of its own: leaving it drops what it declared.
BlockReturnScoped ==
    /\ status = "running"
    /\ InBlock
    /\ Top.pc > Len(Top.stmts)
    /\ stack' = SubSeq(stack, 1, Len(stack) - 1)
    /\ env' = [n \in DOMAIN env \ {Top.stmts[i].id : i \in 1..Len(Top.stmts)} |-> env[n]]
    /\ UNCHANGED <<variant, status, out, err, nvisited, nruns>>

\* visitBlock has visited its last statement and returns.
BlockReturn ==
    /\ status = "running"
    /\ InBlock
    /\ Top.pc > Len(Top.stmts)
    /\ stack' = SubSeq(stack, 1, Len(stack) - 1)
    /\ UNCHANGED <<variant, status, env, out, err, nvisited, nruns>>

\* visitProgram has visited the program's last statement and returns.
ProgramReturn ==
    /\ status = "running"
    /\ ~InBlock
    /\ status' = "done"
    /\ UNCHANGED <<variant, env, out, stack, err, nvisited, nruns>>

Next ==
    \/ VisitVarDecl
    \/ VisitPrintStmt
    \/ VisitIfStmt
    \/ BlockReturn
    \/ ProgramReturn

\* Programs of up to MaxStmts top-level statements, run from an empty env.
Spec == Init /\ [][Next]_vars

\* ------------------------------------------------------- runs to their end

\* The statements of the programs run to their end: if statements nested up
\* to MaxDepth deep or with blocks of up to MaxBlockLen statements, a
\* declaration and a print.
TermStmts ==
    NestedIfs(MaxDepth) \cup BlockIfs
    \cup {VarDecl("number", "x", IntLit(<<"1">>)), PrintStmt(VarRef("x"))}

TermVarDecl == VisitKind(TermStmts, MaxStmts, "VarDecl")
TermPrintStmt == VisitKind(TermStmts, MaxStmts, "PrintStmt")
TermIfStmt == VisitKind(TermStmts, MaxStmts, "IfStmt")

TermNext ==
    \/ TermVarDecl
    \/ TermPrintStmt
    \/ TermIfStmt
    \/ BlockReturn
    \/ ProgramReturn

\* The interpreter is sequential code that keeps running until visitProgram
\* returns or an exception leaves the driver: a step that can be taken is taken.
TermSpec == Init /\ [][TermNext]_vars /\ WF_vars(TermNext)


\* One statement with operands of every kind, visited in an environment an
\* earlier part of the program has built.
EvalInit ==
    /\ variant \in Variants
    /\ status = "running"
    /\ env \in EvalEnvs
    /\ out \in EvalOuts
    /\ stack = <<>>
    /\ err = NoErr
    /\ nvisited = 0
    /\ nruns = 1

EvalVarDecl == VisitKind(EvalStmts(variant), 1, "VarDecl")
EvalPrintStmt == VisitKind(EvalStmts(variant), 1, "PrintStmt")
EvalIfStmt == VisitKind(EvalStmts(variant), 1, "IfStmt")

EvalNext ==
    \/ EvalVarDecl
    \/ EvalPrintStmt
    \/ EvalIfStmt
    \/ BlockReturn
    \/ ProgramReturn

EvalSpec == EvalInit /\ [][EvalNext]_vars

\* ------------------------------------- trees no conforming parser would build

\* Nodes whose operator token is none of those the visitors test for.
ForeignArithOps == {"%"}
ForeignCompOps == {"<>"}

ForeignAriths(v) ==
    {[node |-> n, text |-> <<op>>, kids |-> <<l, r>>] :
        n \in (IF v = 2 THEN {"ArithmOp"} ELSE {"MulDiv", "AddSub"}),
        op \in ForeignArithOps,
        l \in EvalOperands,
        r \in EvalOperands}

ForeignConds ==
    {Condition(l, op, r) : op \in ForeignCompOps, l \in EvalOperands, r \in EvalOperands}

DefensiveStmts(v) ==
    EvalStmts(v)
    \cup {PrintStmt(x) : x \in ForeignAriths(v)}
    \cup {VarDecl("number", "x", x) : x \in ForeignAriths(v)}
    \cup {IfStmt(c, <<PrintLess, PrintNotLess>>) : c \in ForeignConds}

DefensiveVarDecl == VisitKind(DefensiveStmts(variant), 1, "VarDecl")
DefensivePrintStmt == VisitKind(DefensiveStmts(variant), 1, "PrintStmt")
DefensiveIfStmt == VisitKind(DefensiveStmts(variant), 1, "IfStmt")

DefensiveNext ==
    \/ DefensiveVarDecl
    \/ DefensivePrintStmt
    \/ DefensiveIfStmt
    \/ BlockReturn
    \/ ProgramReturn

\* One statement, possibly with an operator token outside the grammar's.
DefensiveSpec == EvalInit /\ [][DefensiveNext]_vars

\* -------------------------------------------------- several runs, one process

\* The statements of the programs of a session: x declared a number or a
\* text, a declaration that fails, a print of x (which fails while x is
\* undeclared), and an if statement whose block declares and prints x.
\* With them the statements of number a = 10 number b = 0 print a / b, and
\* number b = b / a, which makes b a float.
DivAB(v) == BinaryOp(v, "/", VarRef("a"), VarRef("b"))

SessionStmts(v) ==
    {VarDecl("number", "x", IntLit(<<"1">>)),
     VarDecl("text", "x", StringLit(Less)),
     VarDecl("number", "x", StringLit(Less)),
     PrintStmt(VarRef("x")),
     IfStmt(TrueCond, <<<<VarDecl("number", "x", IntLit(<<"1">>)), PrintStmt(VarRef("x"))>>>>),
     VarDecl("number", "a", IntLit(<<"1", "0">>)),
     VarDecl("number", "b", IntLit(<<"0">>)),
     VarDecl("number", "b", BinaryOp(v, "/", VarRef("b"), VarRef("a"))),
     PrintStmt(DivAB(v))}

SessionVarDecl == VisitKind(SessionStmts(variant), MaxStmts, "VarDecl")
SessionPrintStmt == VisitKind(SessionStmts(variant), MaxStmts, "PrintStmt")
SessionIfStmt == VisitKind(SessionStmts(variant), MaxStmts, "IfStmt")

SessionNext ==
    \/ SessionVarDecl
    \/ SessionPrintStmt
    \/ SessionIfStmt
    \/ BlockReturn
    \/ ProgramReturn
    \/ Run

\* Up to MaxRuns calls of the driver in one process, each on a program of up
\* to MaxStmts top-level statements.
SessionSpec == Init /\ [][SessionNext]_vars

\* --------------------------------------------- the same program, two visitors

\* The statements of the programs given to both interpreters: declarations
\* of a number, of zero and of a text, every operator printed on x or a text
\* and on y or a literal, x overwritten with a difference or a quotient, a
\* sum whose right operand is a product, and an if statement with arithmetic
\* in its condition and in both its blocks.
EquivStmts(v) ==
    {VarDecl("number", "x", IntLit(<<"1">>)),
     VarDecl("number", "y", IntLit(<<"2">>)),
     VarDecl("number", "y", IntLit(<<"0">>)),
     VarDecl("text", "y", StringLit(Less))}
    \cup {PrintStmt(BinaryOp(v, op, l, r)) :
              op \in ArithOps, l \in {VarRef("x"), StringLit(Less)}, r \in {VarRef("y"), IntLit(<<"2">>)}}
    \cup {VarDecl("number", "x", BinaryOp(v, op, VarRef("x"), VarRef("y"))) : op \in {"-", "/"}}
    \cup {PrintStmt(BinaryOp(v, "+", VarRef("x"),
                             Parens(BinaryOp(v, "*", VarRef("y"), VarRef("x"))))),
          IfStmt(Condition(BinaryOp(v, "-", VarRef("x"), VarRef("y")), "<", IntLit(<<"1">>)),
                 <<<<PrintStmt(BinaryOp(v, "*", VarRef("x"), VarRef("y")))>>,
                   <<VarDecl("number", "x", BinaryOp(v, "+", VarRef("x"), VarRef("y")))>>>>)}

EquivVarDecl == VisitKind(EquivStmts(variant), MaxStmts, "VarDecl")
EquivPrintStmt == VisitKind(EquivStmts(variant), MaxStmts, "PrintStmt")
EquivIfStmt == VisitKind(EquivStmts(variant), MaxStmts, "IfStmt")

EquivNext ==
    \/ EquivVarDecl
    \/ EquivPrintStmt
    \/ EquivIfStmt
    \/ BlockReturn
    \/ ProgramReturn

\* Programs of up to MaxStmts statements with arithmetic throughout, run by
\* either interpreter.
EquivSpec == Init /\ [][EquivNext]_vars

\* ------------------------------------------------------------------ claims

\* The statement the innermost block hands to self.visit next, when it has one.
HasCur == status = "running" /\ InBlock /\ Top.pc <= Len(Top.stmts)
CurStmt == Top.stmts[Top.pc]

\* C1 (flat scoping).  While a block is being visited, every binding stays
\* in the environment with its value unless the statement visited is a
\* declaration of that very name; a successful declaration in the block binds
\* its name to the value of its expression; and the return of visitBlock
\* changes no binding.  So what a block declares is bound, to the same value,
\* when the block and the if statement around it are done.
C1_FlatScoping ==
    [][(status = "running" /\ InBlock) =>
        /\ Top.pc > Len(Top.stmts) => env' = env
        /\ \A n \in DOMAIN env :
              /\ n \in DOMAIN env'
              /\ env'[n] # env[n] =>
                    (HasCur /\ CurStmt.node = "VarDecl" /\ CurStmt.id = n)
        /\ (HasCur /\ CurStmt.node = "VarDecl" /\ status' = "running") =>
              /\ CurStmt.id \in DOMAIN env'
              /\ Ret(env'[CurStmt.id]) = visit(CurStmt.expr, env)
       ]_vars

\* The first top-level statement of the run is done and the loop is back in
\* visitProgram; that one statement has both bound x and printed, so it was
\* an if statement whose block declared x, and x is read at top level.
C1_Witness ==
    /\ status = "running"
    /\ ~InBlock
    /\ nvisited = 1
    /\ out = <<PyInt(1)>>
    /\ "x" \in DOMAIN env
    /\ visit(VarRef("x"), env) = Ret(Value("number", PyInt(1)))

\* C2 (halt at the first failure).  When the statement a block hands to
\* self.visit fails, the run is failed with that statement's exception, every
\* loop in progress is left, and the output and the environment are those
\* before the statement; a step that ends the run in failure never changes
\* the output; and once the run has failed no statement is visited and the
\* output stays as it is.
C2_HaltsAtFirstFailure ==
    [][/\ (HasCur /\ ~visitStatement(CurStmt, env, out).ok) =>
            /\ status' = "failed"
            /\ err' = visitStatement(CurStmt, env, out).err
            /\ stack' = <<>>
            /\ out' = out
            /\ env' = env
       /\ (status = "running" /\ status' = "failed") =>
            /\ out' = out
            /\ stack' = <<>>
            /\ err' # NoErr
       /\ status = "failed" =>
            /\ out' = out
            /\ nvisited' = nvisited
            /\ stack' = <<>>
      ]_vars

\* The first top-level statement has printed and then failed: the failure
\* came from a block, after a print, and the print is still in the output.
C2_Witness ==
    /\ status = "failed"
    /\ nvisited = 1
    /\ out = <<PyStr(<<"l", "e", "s", "s">>)>>
    /\ err.exc = "TypeError"
    /\ stack = <<>>

\* The statements self.visit can be handed next in this state, out of S.
Visitable(S, budget) == IF status = "running" THEN Upcoming(S, budget) ELSE {}

\* The message of visitVarDecl for a value of kind k under keyword kw.
DeclaredTypeMismatch(name, kw, k) ==
    Exc("TypeError",
        <<"Variable '", name,
          IF kw = "number" THEN "' declared as number but assigned "
          ELSE "' declared as text but assigned ",
          k>>)

\* C3 (declared type mismatch).  Every declaration that can be visited, whose
\* expression evaluates to a value of the kind the keyword does not name,
\* fails with the TypeError of visitVarDecl naming the variable, the keyword
\* and the kind of the value, and leaves the environment and the output as
\* they were: nothing is bound, so no value is coerced.  number x = "less"
\* is one of them in every state.
C3_DeclaredTypeMismatch ==
    /\ \A st \in Visitable(EvalStmts(variant), 1) :
          st.node = "VarDecl" =>
            LET v == visit(st.expr, env)
                r == visitVarDecl(st, env, out)
            IN  (v.ok /\ v.val.kind # st.kw) =>
                    r = Failed(env, out, DeclaredTypeMismatch(st.id, st.kw, v.val.kind))
    /\ visitVarDecl(VarDecl("number", "x", StringLit(Less)), env, out)
          = Failed(env, out, DeclaredTypeMismatch("x", "number", "text"))
    /\ (status = "failed" /\ Len(err.msg) = 4) =>
          err \in {DeclaredTypeMismatch("x", "number", "text"),
                   DeclaredTypeMismatch("x", "text", "number")}

\* A text was declared as number x: the run failed and x is not bound.
C3_Witness ==
    /\ status = "failed"
    /\ err = DeclaredTypeMismatch("x", "number", "text")
    /\ "x" \notin DOMAIN env

\* C4 (re-declaration).  Every declaration that can be visited, whose
\* expression evaluates to a value of the kind its keyword names, succeeds
\* whatever its name is bound to, binds the name to that value and changes
\* nothing else; a VarRef to the name then yields that value.
C4_Redeclaration ==
    \A st \in Visitable(Stmts(variant), MaxStmts) :
        st.node = "VarDecl" =>
            LET v == visit(st.expr, env)
                r == visitVarDecl(st, env, out)
            IN  (v.ok /\ v.val.kind = st.kw) =>
                    /\ r = Done(Declare(env, st.id, v.val), out, <<>>)
                    /\ visit(VarRef(st.id), r.env) = Ret(v.val)
                    /\ \A n \in DOMAIN env \ {st.id} : r.env[n] = env[n]

\* A block has declared x a number and then a text: x reads as the text.
C4_Witness ==
    /\ status = "running"
    /\ InBlock
    /\ Len(Top.stmts) >= 2
    /\ Top.pc = 3
    /\ Top.stmts[1] = VarDecl("number", "x", IntLit(<<"1">>))
    /\ Top.stmts[2] = VarDecl("text", "x", StringLit(Less))
    /\ visit(VarRef("x"), env) = Ret(Value("text", PyStr(<<"l", "e", "s", "s">>)))

\* The leaf of an expression or condition that is evaluated first.
RECURSIVE Leftmost(_)
Leftmost(ctx) == IF ctx.kids = <<>> THEN ctx ELSE Leftmost(ctx.kids[1])

UndefinedVariable(name) == Exc("NameError", <<"Undefined variable '", name, "'">>)

\* C5 (undefined variable).  A VarRef to a name that is not declared fails
\* with the NameError of visitVarRef; and every statement that can be visited
\* and evaluates such a VarRef first fails with that error, printing nothing
\* and leaving the output and the environment as they were.
C5_UndefinedVariable ==
    /\ \A n \in Names \ DOMAIN env :
          visit(VarRef(n), env) = Raised(UndefinedVariable(n))
    /\ \A st \in Visitable(EvalStmts(variant), 1) :
          LET first == Leftmost(st.expr)
          IN  (first.node = "VarRef" /\ first.text[1] \notin DOMAIN env) =>
                visitStatement(st, env, out)
                    = Failed(env, out, UndefinedVariable(first.text[1]))
    /\ (status = "failed" /\ err.exc = "NameError") =>
          (out \in EvalOuts /\ stack = <<>>)

\* A statement read an undeclared name after the program had printed: the
\* run failed and the output is what it was.
C5_Witness ==
    /\ status = "failed"
    /\ err = UndefinedVariable("y")
    /\ out = <<PyInt(1)>>

ArithNodes == {"MulDiv", "AddSub", "ArithmOp"}

\* C6 (arithmetic on text).  For every print statement that can be visited
\* and prints an arithmetic node whose operands both evaluate: when an
\* operand is a text the node fails with TypeError and gives no value, and
\* the statement fails with it; when both are numbers the node does not fail
\* with TypeError.
C6_ArithmeticNeedsNumbers ==
    \A st \in Visitable(EvalStmts(variant), 1) :
        (st.node = "PrintStmt" /\ st.expr.node \in ArithNodes) =>
            LET l == visit(st.expr.kids[1], env)
                r == visit(st.expr.kids[2], env)
                res == visit(st.expr, env)
            IN  (l.ok /\ r.ok) =>
                    IF l.val.kind = "text" \/ r.val.kind = "text"
                    THEN /\ ~res.ok
                         /\ res.val = NoValue
                         /\ res.err.exc = "TypeError"
                         /\ visitStatement(st, env, out) = Failed(env, out, res.err)
                    ELSE res.ok \/ res.err.exc # "TypeError"

\* An arithmetic node with a text operand was visited: the run failed with
\* the TypeError of the arithmetic visitor.
C6_Witness ==
    /\ status = "failed"
    /\ err.exc = "TypeError"
    /\ err.msg \in {<<"'*' and '/' only work on numbers">>,
                    <<"'+' and '-' only work on numbers (no string concat in this example)">>}

ConditionTypeError == Exc("TypeError", <<"if condition comparisons require numbers">>)

\* C7 (comparison of text).  For every if statement that can be visited and
\* whose condition's operands both evaluate: when an operand is a text the condition fails with
\* the TypeError of visitCondition and the if statement fails with it,
\* entering neither block and changing neither output nor environment; when
\* both are numbers the condition yields a boolean.
C7_ComparisonNeedsNumbers ==
    \A st \in {i \in Visitable(EvalStmts(variant), 1) : i.node = "IfStmt"} :
        LET l == visit(st.expr.kids[1], env)
            r == visit(st.expr.kids[2], env)
            c == visitCondition(st.expr, env)
        IN  (l.ok /\ r.ok) =>
                IF l.val.kind = "text" \/ r.val.kind = "text"
                THEN /\ c = CondRaised(ConditionTypeError)
                     /\ visitIfStmt(st, env, out) = Failed(env, out, ConditionTypeError)
                ELSE c.ok /\ c.truth \in BOOLEAN /\ c.err = NoErr

\* A condition with a text operand was visited: the run failed, no block was
\* entered and nothing was printed.
C7_Witness ==
    /\ status = "failed"
    /\ err = ConditionTypeError
    /\ stack = <<>>
    /\ out = <<>>

\* C8 (output).  A print statement that a block hands to self.visit and
\* whose expression evaluates appends exactly the payload of that value, as
\* the environment has it at that moment; every other step in a block (a
\* declaration, an if statement, a failing print, the return of the block)
\* leaves the output as it is.  Every step of the run appends at most one
\* entry and changes no entry already printed, and a step that prints changes
\* neither the environment nor the loops in progress nor the outcome.
C8_OutputPerPrint ==
    [][/\ (HasCur /\ CurStmt.node = "PrintStmt" /\ visit(CurStmt.expr, env).ok) =>
            out' = Append(out, visit(CurStmt.expr, env).val.value)
       /\ (InBlock /\ ~(HasCur /\ CurStmt.node = "PrintStmt" /\ visit(CurStmt.expr, env).ok)) =>
            out' = out
       /\ Len(out') <= Len(out) + 1
       /\ SubSeq(out', 1, Len(out)) = out
       /\ out' # out =>
            /\ env' = env
            /\ status' = "running"
            /\ Len(stack') = Len(stack)
      ]_vars

\* A block has printed x while x was a number and then declared x a text:
\* the entry printed is still the number.
C8_Witness ==
    /\ status = "running"
    /\ InBlock
    /\ Top.stmts = <<PrintStmt(VarRef("x")), VarDecl("text", "x", StringLit(Less))>>
    /\ Top.pc = 3
    /\ out \in {<<PyInt(n)>> : n \in 1..3}
    /\ env["x"] = Value("text", PyStr(<<"l", "e", "s", "s">>))

\* A condition whose operands are literals has the same truth in every state.
Literal(c) == \A i \in 1..Len(c.kids) : c.kids[i].node = "IntLit"

\* number x = 2 number y = 3 if (x < y) { print "less" } else { print "not less" }
ScenarioIf ==
    IfStmt(Condition(VarRef("x"), "<", VarRef("y")), <<PrintLess, PrintNotLess>>)

ScenarioEnv ==
    Declare(Declare(EmptyEnv, "x", Value("number", PyInt(2))),
            "y", Value("number", PyInt(3)))

\* C9 (branch selection).  Every if statement that can be visited and whose
\* condition evaluates leaves environment and output as they are and enters
\* exactly its then-block when the condition is true, exactly its else-block
\* when it is false and has one, and no block otherwise.  The block being
\* visited inside an if statement with a literal condition is the one the
\* condition selects.  With x = 2 and y = 3 the if statement of the scenario
\* enters its then-block, whose visit prints less and nothing else.
C9_BranchSelection ==
    /\ \A st \in Visitable(Stmts(variant), MaxStmts) :
          st.node = "IfStmt" =>
            LET c == visitCondition(st.expr, env)
                r == visitIfStmt(st, env, out)
            IN  c.ok =>
                  /\ c.truth => r = Done(env, out, <<st.blocks[1]>>)
                  /\ (~c.truth /\ Len(st.blocks) = 2) => r = Done(env, out, <<st.blocks[2]>>)
                  /\ (~c.truth /\ Len(st.blocks) = 1) => r = Done(env, out, <<>>)
    /\ \A i \in 1..(Len(stack) - 1) :
          LET outer == stack[i].stmts[stack[i].pc - 1]
          IN  /\ outer.node = "IfStmt"
              /\ Literal(outer.expr) =>
                    stack[i + 1].stmts =
                        IF visitCondition(outer.expr, env).truth
                        THEN outer.blocks[1]
                        ELSE outer.blocks[2]
    /\ env = ScenarioEnv =>
          LET r == visitIfStmt(ScenarioIf, env, out)
          IN  /\ r = Done(env, out, <<PrintLess>>)
              /\ Len(PrintLess) = 1
              /\ visitStatement(PrintLess[1], env, out)
                    = Done(env, Append(out, PyStr(<<"l", "e", "s", "s">>)), <<>>)

\* The scenario: after number x = 2 and number y = 3 the third statement has
\* entered the block print "less" and visited it; the output is less alone.
C9_Witness ==
    /\ status = "running"
    /\ nvisited = 3
    /\ env = ScenarioEnv
    /\ stack = <<[stmts |-> PrintLess, pc |-> 2]>>
    /\ out = <<PyStr(<<"l", "e", "s", "s">>)>>

\* The comparison of the integers a and b that the token op names.
IntCompare(op, a, b) ==
    CASE op = "==" -> a = b
      [] op = "!=" -> a # b
      [] op = "<" -> a < b
      [] op = "<=" -> a <= b
      [] op = ">" -> a > b
      [] op = ">=" -> a >= b

IsInt(r) == r.ok /\ r.val.kind = "number" /\ ~r.val.value.float

\* C10 (comparison operators).  For every if statement that can be visited
\* and whose condition's operands evaluate to ints a and b, the condition
\* yields the boolean of the comparison of a and b that its token names, and
\* the if statement enters its then-block exactly when that boolean is true.
C10_ComparisonOperators ==
    \A st \in {i \in Visitable(EvalStmts(variant), 1) : i.node = "IfStmt"} :
        LET l == visit(st.expr.kids[1], env)
            r == visit(st.expr.kids[2], env)
        IN  (IsInt(l) /\ IsInt(r)) =>
                LET b == IntCompare(st.expr.text[1], l.val.value.num, r.val.value.num)
                IN  /\ visitCondition(st.expr, env) = Truth(b)
                    /\ visitIfStmt(st, env, out).enter =
                          IF b THEN <<st.blocks[1]>>
                          ELSE IF Len(st.blocks) = 2 THEN <<st.blocks[2]>>
                          ELSE <<>>

\* With x = -1 and y = 2 an if statement has found its condition false and
\* entered its else-block.
C10_Witness ==
    /\ status = "running"
    /\ nvisited = 1
    /\ DOMAIN env = {"x", "y"}
    /\ env["x"] = Value("number", PyInt(-1))
    /\ env["y"] = Value("number", PyInt(2))
    /\ stack = <<[stmts |-> PrintNotLess, pc |-> 1]>>

\* The int a op b that the token op names, for +, - and *.
IntArith(op, a, b) ==
    CASE op = "+" -> a + b
      [] op = "-" -> a - b
      [] op = "*" -> a * b

\* C11 (arithmetic).  For every print statement or declaration that can be
\* visited and whose expression is an arithmetic node whose operands evaluate to the ints a and b: the
\* node yields the number a+b, a-b or a*b for +, - and *, and for / with
\* b # 0 a number q with q*b = a, which is a float and so is never cut down
\* to an int, and the statement prints that payload.  The quotient is taken
\* where a number is required: number x = l / r binds x to it, (x / y) * y
\* is a again, (x / y) - y is a number, and a condition comparing x / 2
\* with a number yields a boolean.
C11_Arithmetic ==
    /\ \A st \in Visitable(EvalStmts(variant), 1) :
          (st.node \in {"PrintStmt", "VarDecl"} /\ st.expr.node \in ArithNodes) =>
            LET l == visit(st.expr.kids[1], env)
                r == visit(st.expr.kids[2], env)
                op == st.expr.text[1]
                res == visit(st.expr, env)
                a == l.val.value.num
                b == r.val.value.num
            IN  (IsInt(l) /\ IsInt(r)) =>
                  /\ op \in {"+", "-", "*"} =>
                        res = Ret(Value("number", PyInt(IntArith(op, a, b))))
                  /\ (op = "/" /\ b # 0) =>
                        /\ res.ok
                        /\ res.err = NoErr
                        /\ res.val.kind = "number"
                        /\ res.val.value.float
                        /\ res.val.value.str = <<>>
                        /\ res.val.value.den > 0
                        /\ res.val.value.num * b = a * res.val.value.den
                  /\ (res.ok /\ st.node = "PrintStmt") =>
                        visitPrintStmt(st, env, out)
                            = Done(env, Append(out, res.val.value), <<>>)
                  /\ (res.ok /\ st.node = "VarDecl" /\ st.kw = "number") =>
                        visitVarDecl(st, env, out)
                            = Done(Declare(env, st.id, res.val), out, <<>>)
    /\ (/\ DOMAIN env = {"x", "y"}
        /\ IsInt(Ret(env["x"]))
        /\ IsInt(Ret(env["y"]))
        /\ env["y"].value.num # 0) =>
               (LET q == BinaryOp(variant, "/", VarRef("x"), VarRef("y"))
                    back == visit(BinaryOp(variant, "*", Parens(q), VarRef("y")), env)
                    diff == visit(BinaryOp(variant, "-", Parens(q), VarRef("y")), env)
                IN  /\ back.ok
                    /\ back.val.kind = "number"
                    /\ PyEq(back.val.value, env["x"].value)
                    /\ diff.ok
                    /\ diff.val.kind = "number"
                    /\ PyEq(PyAdd(diff.val.value, env["y"].value), visit(q, env).val.value))
    /\ \A st \in {i \in Visitable(EvalStmts(variant), 1) : i.node = "IfStmt"} :
          LET l == st.expr.kids[1]
              r == visit(st.expr.kids[2], env)
          IN  (/\ l.node \in ArithNodes
               /\ l.text = <<"/">>
               /\ IsInt(visit(l.kids[1], env))
               /\ IsInt(visit(l.kids[2], env))
               /\ visit(l.kids[2], env).val.value.num # 0
               /\ r.ok
               /\ r.val.kind = "number") =>
                 visitCondition(st.expr, env).ok

\* With x = 1 and y = 2 a statement has printed a quotient: the entry is the
\* float 1/2, not the int 0.
C11_Witness ==
    /\ status = "running"
    /\ nvisited = 1
    /\ DOMAIN env = {"x", "y"}
    /\ env["x"] = Value("number", PyInt(1))
    /\ env["y"] = Value("number", PyInt(2))
    /\ Len(out) >= 1
    /\ out[Len(out)] = PyFloat(1, 2)

\* C12 (fresh environment).  A run begins with an empty environment, whether
\* the run before it returned or raised: the step that starts it leaves no
\* binding, so a VarRef to any name then fails with the NameError of
\* visitVarRef; and within a run a name comes to be bound only by a
\* declaration of that name visited in that run.
C12_FreshEnvironment ==
    [][/\ nruns' # nruns =>
            /\ status \in {"done", "failed"}
            /\ env' = EmptyEnv
            /\ status' = "running"
            /\ out' = out
            /\ \A n \in Names : visit(VarRef(n), env') = Raised(UndefinedVariable(n))
       /\ nvisited = 0 => env = EmptyEnv
       /\ nruns' = nruns =>
            \A n \in DOMAIN env' \ DOMAIN env :
                /\ status = "running"
                /\ env' = Declare(env, n, env'[n])
                /\ InBlock => (HasCur /\ CurStmt.node = "VarDecl" /\ CurStmt.id = n)
      ]_vars

\* The first run declared x the number 1 and printed it; the second run read
\* x without declaring it and failed.
C12_Witness ==
    /\ nruns = 2
    /\ status = "failed"
    /\ err = UndefinedVariable("x")
    /\ env = EmptyEnv
    /\ out = <<PyInt(1)>>

\* C13 (evaluation order).  For every statement that can be visited and
\* whose expression is an arithmetic node or a condition: when the left
\* operand fails, the node fails with the left operand's exception whatever
\* the right operand does or would raise, and the statement fails with it,
\* changing neither output nor environment; when the left operand evaluates
\* and the right one fails, the node fails with the right operand's exception.
C13_LeftToRight ==
    \A st \in Visitable(EvalStmts(variant), 1) :
        st.expr.node \in ArithNodes \cup {"Condition"} =>
            LET l == visit(st.expr.kids[1], env)
                r == visit(st.expr.kids[2], env)
                res == IF st.expr.node = "Condition"
                       THEN visitCondition(st.expr, env)
                       ELSE visit(st.expr, env)
            IN  /\ ~l.ok =>
                    /\ ~res.ok
                    /\ res.err = l.err
                    /\ visitStatement(st, env, out) = Failed(env, out, l.err)
                /\ (l.ok /\ ~r.ok) =>
                    /\ ~res.ok
                    /\ res.err = r.err
                    /\ visitStatement(st, env, out) = Failed(env, out, r.err)

\* A node with the undeclared z as its left operand (z is read nowhere else)
\* was visited while y, which right operands read, was undeclared as well: the
\* run failed on z.
C13_Witness ==
    /\ status = "failed"
    /\ err = UndefinedVariable("z")
    /\ "y" \notin DOMAIN env
    /\ stack = <<>>

\* The failure kind a caller reads off the exception it catches: its class
\* and, for a TypeError, how its message begins.
Kind(x) ==
    CASE x.exc = "NameError" -> "UndefinedVariable"
      [] x.exc = "RuntimeError" -> "UnknownOperator"
      [] x.exc = "TypeError" /\ x.msg[1] = "Variable '" -> "DeclaredTypeMismatch"
      [] x.exc = "TypeError" /\ x.msg[1] # "Variable '" -> "TypeMismatch"
      [] OTHER -> "Other"

ForeignOp(ctx) ==
    /\ ctx.node \in ArithNodes \cup {"Condition"}
    /\ ctx.text[1] \notin ArithOps \cup CompOps

\* C14 (failure kinds).  For every statement that can be visited, the
\* exception it raises tells the caller why it failed: a declaration whose
\* value is not of the kind of its keyword reads as DeclaredTypeMismatch, a
\* node with a text operand as TypeMismatch, a statement that first reads an
\* undeclared name as UndefinedVariable, and a node with a foreign operator
\* token and two numbers as UnknownOperator; the four are different.
C14_FailureKinds ==
    \A st \in Visitable(DefensiveStmts(variant), 1) :
        LET x == visitStatement(st, env, out).err
            v == visit(st.expr, env)
            first == Leftmost(st.expr)
            binary == st.expr.node \in ArithNodes \cup {"Condition"}
            l == visit(st.expr.kids[1], env)
            r == visit(st.expr.kids[2], env)
        IN  /\ (st.node = "VarDecl" /\ v.ok /\ v.val.kind # st.kw) =>
                  Kind(x) = "DeclaredTypeMismatch"
            /\ (binary /\ l.ok /\ r.ok /\ "text" \in {l.val.kind, r.val.kind}) =>
                  Kind(x) = "TypeMismatch"
            /\ (first.node = "VarRef" /\ first.text[1] \notin DOMAIN env) =>
                  Kind(x) = "UndefinedVariable"
            /\ (binary /\ ForeignOp(st.expr) /\ l.ok /\ r.ok
                  /\ l.val.kind = "number" /\ r.val.kind = "number") =>
                  Kind(x) = "UnknownOperator"

\* After the program had printed, a declaration failed on the kind of its
\* value: the exception reads as DeclaredTypeMismatch.
C14_Witness ==
    /\ status = "failed"
    /\ Kind(err) = "DeclaredTypeMismatch"
    /\ out = <<PyInt(1)>>
    /\ stack = <<>>

\* The RuntimeError each visitor raises when the operator passes every test.
UnknownOperator(ctx) ==
    Exc("RuntimeError",
        CASE ctx.node = "Condition" -> <<"Unknown comparison operator: ", ctx.text[1]>>
          [] ctx.node = "ArithmOp" -> <<"Unexpected operator ", ctx.text[1]>>
          [] OTHER -> <<"Unexpected operator">>)

\* C15 as stated: every statement that can be visited and evaluates a node
\* with a foreign operator token fails with UnknownOperator.
C15_AsStated ==
    \A st \in Visitable(DefensiveStmts(variant), 1) :
        ForeignOp(st.expr) =>
            LET res == visitStatement(st, env, out)
            IN  ~res.ok /\ Kind(res.err) = "UnknownOperator"

\* C15 (unknown operator), amended.  For every statement that can be visited
\* and evaluates a node with a foreign operator token: the statement fails,
\* so no value is returned, printed or bound and no block is entered; and
\* when both operands evaluate to numbers it fails with the RuntimeError of
\* the visitor of that node, which no other failure raises.
C15_UnknownOperator ==
    \A st \in Visitable(DefensiveStmts(variant), 1) :
        ForeignOp(st.expr) =>
            LET l == visit(st.expr.kids[1], env)
                r == visit(st.expr.kids[2], env)
                res == visitStatement(st, env, out)
            IN  /\ ~res.ok
                /\ res.env = env
                /\ res.out = out
                /\ res.enter = <<>>
                /\ st.node # "IfStmt" => visit(st.expr, env).val = NoValue
                /\ (l.ok /\ r.ok /\ l.val.kind = "number" /\ r.val.kind = "number") =>
                      /\ res = Failed(env, out, UnknownOperator(st.expr))
                      /\ Kind(res.err) = "UnknownOperator"
                /\ ~(l.ok /\ r.ok /\ l.val.kind = "number" /\ r.val.kind = "number") =>
                      Kind(res.err) \in {"UndefinedVariable", "TypeMismatch"}

\* A node with a foreign operator token and two numbers was visited: the run
\* failed with RuntimeError, nothing printed and no block entered.
C15_Witness ==
    /\ status = "failed"
    /\ err.exc = "RuntimeError"
    /\ stack = <<>>
    /\ out \in EvalOuts

\* The environment number a = 10 number b = 0 builds.
DivScenarioEnv ==
    Declare(Declare(EmptyEnv, "a", Value("number", PyInt(10))),
            "b", Value("number", PyInt(0)))

\* C16 (division by zero).  Every statement that can be visited and divides
\* a number by a number that is zero (the int 0 or the float 0.0) fails with
\* Python's ZeroDivisionError, which is none of the four failure kinds, and
\* prints and binds nothing; print a / b after number a = 10 number b = 0 is
\* one of them; and a run that has failed so has left every block.
C16_DivisionByZero ==
    /\ \A st \in Visitable(SessionStmts(variant), MaxStmts) :
          (st.expr.node \in ArithNodes /\ st.expr.text = <<"/">>) =>
            LET l == visit(st.expr.kids[1], env)
                r == visit(st.expr.kids[2], env)
                res == visitStatement(st, env, out)
            IN  (/\ l.ok /\ r.ok
                 /\ l.val.kind = "number" /\ r.val.kind = "number"
                 /\ r.val.value.num = 0) =>
                    /\ ~res.ok
                    /\ res.err.exc = "ZeroDivisionError"
                    /\ Kind(res.err) = "Other"
                    /\ res.env = env
                    /\ res.out = out
                    /\ res.enter = <<>>
    /\ env = DivScenarioEnv =>
          LET res == visitStatement(PrintStmt(DivAB(variant)), env, out)
          IN  ~res.ok /\ res.err.exc = "ZeroDivisionError" /\ res.out = out
    /\ (status = "failed" /\ err.exc = "ZeroDivisionError") =>
          (stack = <<>> /\ "b" \in DOMAIN env /\ env["b"].value.num = 0)

\* number a = 10 number b = 0 print a / b has run: both declarations stand,
\* nothing is printed, and the run has failed with ZeroDivisionError.
C16_Witness ==
    /\ nruns = 1
    /\ nvisited = 3
    /\ status = "failed"
    /\ err.exc = "ZeroDivisionError"
    /\ env = DivScenarioEnv
    /\ out = <<>>

\* A payload is a Python number or a Python str, never a bool.
IsNumber(p) == p.str = <<>> /\ p.den > 0 /\ (~p.float => p.den = 1)
IsText(p) == p = PyStr(p.str)

\* A Value whose tag says what its payload is.
WellTagged(v) ==
    \/ v.kind = "number" /\ IsNumber(v.value)
    \/ v.kind = "text" /\ IsText(v.value)

\* C17 (tagged values).  In every reachable state every binding holds a
\* Value tagged number or text whose payload is of that kind, and a VarRef
\* to its name yields exactly that Value; every entry printed is a number or
\* a text; every declaration that can be visited and succeeds binds its name
\* to the value of its expression, whose tag is the keyword's; and when the
\* statement a block visited last is a declaration, its name is bound under
\* the tag of its keyword.
C17_TaggedValues ==
    /\ \A n \in DOMAIN env :
          /\ WellTagged(env[n])
          /\ visit(VarRef(n), env) = Ret(env[n])
    /\ \A i \in 1..Len(out) : IsNumber(out[i]) \/ IsText(out[i])
    /\ \A st \in Visitable(Stmts(variant), MaxStmts) :
          st.node = "VarDecl" =>
            LET r == visitVarDecl(st, env, out)
            IN  r.ok =>
                  /\ r.env[st.id] = visit(st.expr, env).val
                  /\ r.env[st.id].kind = st.kw
                  /\ WellTagged(r.env[st.id])
    /\ (status = "running" /\ InBlock /\ Top.pc > 1) =>
          LET last == Top.stmts[Top.pc - 1]
          IN  last.node = "VarDecl" =>
                (last.id \in DOMAIN env /\ env[last.id].kind = last.kw)

\* A block has just declared x a text while y is bound to a number.
C17_Witness ==
    /\ status = "running"
    /\ InBlock
    /\ Top.pc > 1
    /\ Top.stmts[Top.pc - 1] = VarDecl("text", "x", StringLit(Less))
    /\ DOMAIN env = {"x", "y"}
    /\ env["x"].kind = "text"
    /\ env["y"].kind = "number"

\* C18 (frame of the environment).  No step of a run removes a name; a step
\* that changes the environment is a statement that succeeds, binds one name
\* and leaves every other binding, the output and the blocks in progress as
\* they were; a step that prints, enters a block or fails leaves the
\* environment unchanged; and in a block a print statement or an if statement
\* changes no binding, while a declaration changes at most the binding of its
\* own name, to the value of its expression.
C18_EnvironmentFrame ==
    [][/\ DOMAIN env \subseteq DOMAIN env'
       /\ env' # env =>
            /\ status = "running"
            /\ status' = "running"
            /\ out' = out
            /\ Len(stack') = Len(stack)
            /\ \E n \in DOMAIN env' :
                  /\ DOMAIN env' = DOMAIN env \cup {n}
                  /\ \A m \in DOMAIN env \ {n} : env'[m] = env[m]
       /\ (out' # out \/ Len(stack') > Len(stack) \/ status' = "failed") => env' = env
       /\ (HasCur /\ CurStmt.node \in {"PrintStmt", "IfStmt"}) => env' = env
       /\ (HasCur /\ CurStmt.node = "VarDecl") =>
            \/ env' = env /\ status' = "failed"
            \/ /\ DOMAIN env' = DOMAIN env \cup {CurStmt.id}
               /\ env'[CurStmt.id] = visit(CurStmt.expr, env).val
               /\ \A m \in DOMAIN env \ {CurStmt.id} : env'[m] = env[m]
      ]_vars

\* While y is bound to a text a block has declared x the number 1: y is
\* still the text.
C18_Witness ==
    /\ status = "running"
    /\ InBlock
    /\ Top.pc > 1
    /\ Top.stmts[Top.pc - 1] = VarDecl("number", "x", IntLit(<<"1">>))
    /\ DOMAIN env = {"x", "y"}
    /\ env["x"] = Value("number", PyInt(1))
    /\ env["y"] = Value("text", PyStr(<<"l", "e", "s", "s">>))

Min(a, b) == IF a < b THEN a ELSE b

\* C19 (termination).  Every run ends: it reaches the return of visitProgram
\* or a failure, and then nothing changes any more.  Until then every step
\* moves forward and none goes back: a loop in progress keeps its block and
\* its position never decreases; a statement visited in a block moves that
\* block's loop past it, by one, or ends the run; a block is left only when
\* its loop is past its last statement; and at top level a visit counts one
\* more statement of the program as visited.  So no statement is visited
\* twice.
C19_Termination ==
    /\ <>(status \in {"done", "failed"})
    /\ [][/\ status \in {"done", "failed"} => UNCHANGED vars
          /\ nvisited' >= nvisited
          /\ \A i \in 1..Min(Len(stack), Len(stack')) :
                /\ stack'[i].stmts = stack[i].stmts
                /\ stack'[i].pc >= stack[i].pc
                /\ stack'[i].pc <= Len(stack[i].stmts) + 1
          /\ HasCur =>
                \/ status' = "failed" /\ stack' = <<>>
                \/ /\ Len(stack') >= Len(stack)
                   /\ stack'[Len(stack)].pc = Top.pc + 1
          /\ (InBlock /\ Len(stack') < Len(stack) /\ status' = "running") =>
                (Top.pc = Len(Top.stmts) + 1 /\ Len(stack') = Len(stack) - 1)
          /\ (status = "running" /\ ~InBlock) =>
                \/ status' = "done" /\ nvisited' = nvisited
                \/ nvisited' = nvisited + 1
          /\ Len(stack') <= Len(stack) + 1
          /\ Len(stack') > Len(stack) => stack'[Len(stack')].pc = 1
         ]_vars

\* A run of one statement has returned: an if statement in whose block, or
\* in a block nested in it, x was declared and then printed.
C19_Witness ==
    /\ status = "done"
    /\ stack = <<>>
    /\ nvisited = 1
    /\ env = Declare(EmptyEnv, "x", Value("number", PyInt(1)))
    /\ out = <<PyInt(1)>>

\* C20 (failed declaration).  Every declaration that can be visited and
\* fails, because its expression fails to evaluate or because its value is
\* not of the kind of its keyword, gives back the environment and the output
\* it was given: its name keeps the binding it had, or stays unbound, and no
\* other binding changes.  And the step of a run that fails leaves the
\* environment as it was.
C20_FailedDeclaration ==
    /\ [](\A st \in Visitable(EvalStmts(variant), 1) :
            st.node = "VarDecl" =>
                LET v == visit(st.expr, env)
                    r == visitVarDecl(st, env, out)
                IN  /\ r.ok = (v.ok /\ v.val.kind = st.kw)
                    /\ ~r.ok =>
                          /\ r.env = env
                          /\ r.out = out
                          /\ r.enter = <<>>
                          /\ DOMAIN r.env = DOMAIN env
                          /\ \A n \in DOMAIN env : r.env[n] = env[n]
                          /\ ~v.ok => r.err = v.err)
    /\ [][status' = "failed" => (env' = env /\ out' = out)]_vars

\* While x was bound to a text and y was bound, number x = ... was given a
\* text and failed: x is still that text.
C20_Witness ==
    /\ status = "failed"
    /\ err = DeclaredTypeMismatch("x", "number", "text")
    /\ DOMAIN env = {"x", "y"}
    /\ env["x"] = Value("text", PyStr(<<"l", "e", "s", "s">>))

\* C21 (kind check after both operands).  For every statement that can be
\* visited and whose expression is an arithmetic node or a condition: when
\* the left operand evaluates to a text and the right operand fails, the node
\* and the statement fail with the right operand's exception; that exception
\* is the TypeError of an operator only when the right operand is itself a
\* node that raised it, so an undeclared name on the right is reported as
\* NameError and a division by zero as ZeroDivisionError.
C21_KindCheckAfterOperands ==
    \A st \in Visitable(EvalStmts(variant), 1) :
        st.expr.node \in ArithNodes \cup {"Condition"} =>
            LET l == visit(st.expr.kids[1], env)
                rc == st.expr.kids[2]
                r == visit(rc, env)
                res == visitStatement(st, env, out)
            IN  (l.ok /\ l.val.kind = "text" /\ ~r.ok) =>
                    /\ res = Failed(env, out, r.err)
                    /\ rc.node = "VarRef" => res.err = UndefinedVariable(rc.text[1])
                    /\ rc.node = "Parens" => res.err.exc = "ZeroDivisionError"
                    /\ Kind(res.err) = "TypeMismatch" => rc.node \in ArithNodes

\* A node with a text on its left and the undeclared w on its right was
\* visited: the run failed on w, not on the kind of the text.
C21_Witness ==
    /\ status = "failed"
    /\ err = UndefinedVariable("w")
    /\ stack = <<>>

\* The tree the other grammar builds for the same expression: MulDiv and
\* AddSub nodes for ArithmOp nodes, and the reverse.
RECURSIVE OtherExpr(_)
OtherExpr(ctx) ==
    LET kids == [i \in 1..Len(ctx.kids) |-> OtherExpr(ctx.kids[i])]
    IN  IF ctx.node \in {"MulDiv", "AddSub"}
        THEN ArithmOp(ctx.text[1], kids[1], kids[2])
        ELSE IF ctx.node = "ArithmOp"
        THEN BinaryOp(1, ctx.text[1], kids[1], kids[2])
        ELSE [ctx EXCEPT !.kids = kids]

RECURSIVE OtherStmt(_)
OtherStmt(st) ==
    [st EXCEPT !.expr = OtherExpr(st.expr),
               !.blocks = [b \in 1..Len(st.blocks) |->
                              [i \in 1..Len(st.blocks[b]) |-> OtherStmt(st.blocks[b][i])]]]

\* What an observer of a run sees of a statement's visit, with the blocks it
\* enters read in the other grammar.
Observed(r) ==
    [ok |-> r.ok, env |-> r.env, out |-> r.out, exc |-> r.err.exc, kind |-> Kind(r.err)]

\* C22 (the two variants).  In every state either interpreter reaches, every
\* statement it can visit next and the same statement as the other grammar
\* builds it, visited by the other interpreter's arithmetic visitors from
\* the same environment and output, give the same environment, the same
\* output, the same outcome (success, or an exception of the same class and
\* kind) and enter the same block.  A run of one interpreter is therefore,
\* step by step, a run of the other.
C22_VariantsEquivalent ==
    \A st \in Visitable(EquivStmts(variant), MaxStmts) :
        LET other == OtherStmt(st)
            r == visitStatement(st, env, out)
            q == visitStatement(other, env, out)
        IN  /\ (~InBlock) => other \in EquivStmts(3 - variant)
            /\ OtherStmt(other) = st
            /\ Observed(q) = Observed(r)
            /\ Len(q.enter) = Len(r.enter)
            /\ \A i \in 1..Len(r.enter) :
                  /\ Len(q.enter[i]) = Len(r.enter[i])
                  /\ \A j \in 1..Len(r.enter[i]) : q.enter[i][j] = OtherStmt(r.enter[i][j])

\* The unified interpreter has run number x = 1 number y = 2 print x / y:
\* the output is the float 1/2, as with the separate visitors.
C22_Witness ==
    /\ variant = 2
    /\ status = "running"
    /\ nvisited = 3
    /\ stack = <<>>
    /\ env = Declare(Declare(EmptyEnv, "x", Value("number", PyInt(1))),
                     "y", Value("number", PyInt(2)))
    /\ out = <<PyFloat(1, 2)>>

====
